---- MODULE Spec2Model ----
(***************************************************************************)
(* A model of the ago worker pool (C++11 port, single-mutex variant):      *)
(* ago::ago, ago::go, ago::wait, ago::idle and ago::~ago, at the           *)
(* granularity of the statements between which another thread can act.     *)
(*                                                                         *)
(* Threads: the workers spawned by the constructor (numbered 1..max_conc,  *)
(* in thread_list order) and two client threads, "main" (which owns the    *)
(* pool and may destroy it) and "aux" (a second caller of go and wait).    *)
(*                                                                         *)
(* func_mutex is 0 when free and w when worker w holds it.  A client's     *)
(* critical section touches only state guarded by func_mutex, so it is one *)
(* step.  A worker's critical section is three steps, because ~ago writes  *)
(* ago_quit without taking func_mutex and so can act inside it.  That      *)
(* write races with the workers' reads; each read returns the value before *)
(* or after the store, which is the interleaving of DtorRaise with the     *)
(* worker steps.                                                           *)
(*                                                                         *)
(* The older two-mutex variant (src/ago.h) is modelled in its own section  *)
(* below, with OldInit and OldNext, on the same variables.                 *)
(***************************************************************************)
EXTENDS Integers, Sequences, FiniteSets, TLC

\* Largest max_conc handed to the constructor.
MaxConc == 2

\* Largest number of go() calls in a run.
MaxTasks == 3

\* The threads that call go(), wait() and the destructor.
Clients == {"main", "aux"}

VARIABLES
    max_conc,         \* the constructor's argument
    thread_list,      \* ago_impl::thread_list: the worker threads owned
    ago_quit,         \* ago_impl::ago_quit
    func_list,        \* ago_impl::func_list, oldest first
    arg_list,         \* ago_impl::arg_list, oldest first
    func_mutex,       \* ago_impl::func_mutex: 0, or the worker holding it
    run_condition,    \* workers blocked in run_condition.wait
    idle_condition,   \* clients blocked in idle_condition.wait
    wpc,              \* each worker's position in idle()
    func,             \* idle()'s local func, per worker
    arg,              \* idle()'s local arg, per worker
    func_list_empty,  \* idle()'s local func_list_empty, per worker
    cpc,              \* each client's position
    joined,           \* how many threads of thread_list ~ago has joined
    aborted,          \* std::terminate was called: the process is gone
    nsub,             \* history: go() calls that have pushed; call k pushes k
    order,            \* history: the tasks in the order their bodies started
    ends,             \* history: the tasks whose bodies have returned
    atQuit,           \* history: the tasks queued when ago_quit was raised
    postQuit,         \* history: the tasks pushed after ago_quit was raised
    failed,           \* history: the tasks whose bodies threw
    run_mutex,        \* two-mutex variant: ago_impl::run_mutex, 0 or its holder
    idle_mutex,       \* two-mutex variant: ago_impl::idle_mutex, "free" or its holder
    relock            \* two-mutex variant: what locking an owned mutex does

vars == << max_conc, thread_list, ago_quit, func_list, arg_list, func_mutex,
           run_condition, idle_condition, wpc, func, arg, func_list_empty,
           cpc, joined, aborted, nsub, order, ends, atQuit, postQuit,
           failed, run_mutex, idle_mutex, relock >>

\* The state only the two-mutex variant has; the single-mutex pool has no such
\* fields and leaves them as they are.
two_mutex == << run_mutex, idle_mutex, relock >>

Range(s) == { s[i] : i \in DOMAIN s }

Workers == DOMAIN wpc

----------------------------------------------------------------------------
(* The constructor. *)

\* A constructor whose loop runs once too often.
SpawnOneMore(n) == 1..(n + 1)

\* for(int i = 0; i < max_conc; ++i) thread_list.push_back(new std::thread(...))
Spawn(n) == 1..n

Init ==
    /\ max_conc \in 1..MaxConc
    /\ thread_list = Spawn(max_conc)
    /\ ago_quit = FALSE
    /\ func_list = << >>
    /\ arg_list = << >>
    /\ func_mutex = 0
    /\ run_condition = {}
    /\ idle_condition = {}
    /\ wpc = [w \in thread_list |-> "top"]
    /\ func = [w \in thread_list |-> 0]
    /\ arg = [w \in thread_list |-> 0]
    /\ func_list_empty = [w \in thread_list |-> FALSE]
    /\ cpc = [c \in Clients |-> "idle"]
    /\ joined = 0
    /\ aborted = FALSE
    /\ nsub = 0
    /\ order = << >>
    /\ ends = {}
    /\ atQuit = {}
    /\ postQuit = {}
    /\ failed = {}
    /\ run_mutex = 0
    /\ idle_mutex = "free"
    /\ relock = "none"

----------------------------------------------------------------------------
(* std::queue and std::condition_variable. *)

\* A queue read from the wrong end.
QueueBack(q) == q[Len(q)]

\* std::queue::front
QueueFront(q) == Head(q)

\* A pop that removes nothing.
QueueKeep(q) == q

\* std::queue::pop
QueuePop(q) == Tail(q)

\* A push at the front, as onto a stack.
QueuePushFront(q, x) == << x >> \o q

\* std::queue::push
QueuePush(q, x) == Append(q, x)

\* The argument taken from the wrong end of arg_list.
ArgBack(q) == QueueBack(q)

\* arg = impl->arg_list.front()
ArgFront(q) == QueueFront(q)

\* A notify_one that wakes nobody.
NotifyNobody(waiting) == { {} }

\* notify_one: the sets of threads it may wake (one waiter, if there is any).
NotifyOne(waiting) ==
    IF waiting = {} THEN { {} } ELSE { {w} : w \in waiting }

\* A wait on run_condition with no predicate.
RunPredicateAlways == TRUE

\* The predicate of run_condition.wait in idle().
RunPredicate == func_list # << >> \/ ago_quit

\* A wait on idle_condition with no predicate.
IdlePredicateAlways == TRUE

\* The predicate of idle_condition.wait in wait().
IdlePredicate == func_list = << >>

\* A quit test that is never taken.
QuitTestSkipped == FALSE

\* if(impl->ago_quit) return;
QuitTest == ago_quit

\* A lock scope that lasts through the task body.
LockKeptThroughBody(w) == w

\* The scope of the unique_lock ends before func(arg): func_mutex is free.
LockAfterScope(w) == 0

----------------------------------------------------------------------------
(* ago::idle, run by each worker. *)

\* Takes func_mutex and evaluates the wait predicate; when it holds, goes on
\* to the quit test, all under the lock.
IdleLock(w) ==
    /\ ~aborted
    /\ w \in Workers
    /\ wpc[w] = "top"
    /\ func_mutex = 0
    /\ IF ~RunPredicate
         THEN /\ wpc' = [wpc EXCEPT ![w] = "block"]
              /\ func_mutex' = w
         ELSE IF QuitTest
                THEN /\ wpc' = [wpc EXCEPT ![w] = "terminated"]
                     /\ func_mutex' = 0
                ELSE /\ wpc' = [wpc EXCEPT ![w] = "assigned"]
                     /\ func_mutex' = w
    /\ UNCHANGED << max_conc, thread_list, ago_quit, func_list, arg_list,
                    run_condition, idle_condition, func, arg, func_list_empty,
                    cpc, joined, aborted, nsub, order, ends, atQuit, postQuit,
                    failed >>
    /\ UNCHANGED two_mutex

\* The predicate was false: condition_variable::wait releases the lock and
\* blocks, atomically.
IdleBlock(w) ==
    /\ ~aborted
    /\ w \in Workers
    /\ wpc[w] = "block"
    /\ func_mutex' = 0
    /\ run_condition' = run_condition \cup {w}
    /\ wpc' = [wpc EXCEPT ![w] = "waiting"]
    /\ UNCHANGED << max_conc, thread_list, ago_quit, func_list, arg_list,
                    idle_condition, func, arg, func_list_empty, cpc, joined,
                    aborted, nsub, order, ends, atQuit, postQuit, failed >>
    /\ UNCHANGED two_mutex

\* A blocked worker wakes without a notification.
IdleSpurious(w) ==
    /\ ~aborted
    /\ w \in run_condition
    /\ run_condition' = run_condition \ {w}
    /\ wpc' = [wpc EXCEPT ![w] = "top"]
    /\ UNCHANGED << max_conc, thread_list, ago_quit, func_list, arg_list,
                    func_mutex, idle_condition, func, arg, func_list_empty,
                    cpc, joined, aborted, nsub, order, ends, atQuit, postQuit,
                    failed >>
    /\ UNCHANGED two_mutex

\* Past the quit test: takes the front of both queues, records whether the
\* function queue is now empty, leaves the lock and enters the task body.
IdlePop(w) ==
    /\ ~aborted
    /\ w \in Workers
    /\ wpc[w] = "assigned"
    /\ func' = [func EXCEPT ![w] = QueueFront(func_list)]
    /\ func_list' = QueuePop(func_list)
    /\ arg' = [arg EXCEPT ![w] = ArgFront(arg_list)]
    /\ arg_list' = QueuePop(arg_list)
    /\ func_list_empty' = [func_list_empty EXCEPT ![w] = (func_list' = << >>)]
    /\ func_mutex' = LockAfterScope(w)
    /\ wpc' = [wpc EXCEPT ![w] = "run"]
    /\ order' = Append(order, func'[w])
    /\ UNCHANGED << max_conc, thread_list, ago_quit, run_condition,
                    idle_condition, cpc, joined, aborted, nsub, ends, atQuit,
                    postQuit, failed >>
    /\ UNCHANGED two_mutex

\* A worker that looks at the queue again when its task has returned.
SignalsIfEmptyNow(w) == func_list = << >>

\* if(func_list_empty): whether the worker calls idle_condition.notify_all()
\* after its task; the flag is the one captured under the lock at the pop.
Signals(w) == func_list_empty[w]

\* A notify_one in place of the notify_all.
IdleSignalOne(w) ==
    IF Signals(w) /\ idle_condition # {}
      THEN { CHOOSE c \in idle_condition : TRUE }
      ELSE {}

\* The clients idle_condition.notify_all() wakes when the worker signals.
IdleSignal(w) == IF Signals(w) THEN idle_condition ELSE {}

\* func(arg) returns; the worker signals idle_condition if the queue was
\* empty when it popped, and loops.
IdleReturn(w) ==
    /\ ~aborted
    /\ w \in Workers
    /\ wpc[w] = "run"
    /\ ends' = ends \cup {func[w]}
    /\ idle_condition' = idle_condition \ IdleSignal(w)
    /\ cpc' = [c \in Clients |->
                 IF c \in IdleSignal(w) THEN "wait_woken" ELSE cpc[c]]
    /\ wpc' = [wpc EXCEPT ![w] = "top"]
    /\ UNCHANGED << max_conc, thread_list, ago_quit, func_list, arg_list,
                    func_mutex, run_condition, func, arg, func_list_empty,
                    joined, aborted, nsub, order, atQuit, postQuit, failed >>
    /\ UNCHANGED two_mutex

\* func(arg) throws: nothing in idle() or static_idle() catches, so the
\* exception leaves the thread function and std::terminate ends the process.
IdleThrow(w) ==
    /\ ~aborted
    /\ w \in Workers
    /\ wpc[w] = "run"
    /\ aborted' = TRUE
    /\ failed' = failed \cup {func[w]}
    /\ UNCHANGED << max_conc, thread_list, ago_quit, func_list, arg_list,
                    func_mutex, run_condition, idle_condition, wpc, func, arg,
                    func_list_empty, cpc, joined, nsub, order, ends, atQuit,
                    postQuit >>
    /\ UNCHANGED two_mutex

----------------------------------------------------------------------------
(* ago::go and ago::wait, called by the clients. *)

\* The pool object still exists: ~ago has not returned.
Alive == cpc["main"] # "d_done"

\* go(): pushes the function and its argument under func_mutex. Call k pushes
\* function k and argument k.
GoPush(c) ==
    /\ ~aborted
    /\ Alive
    /\ cpc[c] = "idle"
    /\ nsub < MaxTasks
    /\ func_mutex = 0
    /\ func_list' = QueuePush(func_list, nsub + 1)
    /\ arg_list' = QueuePush(arg_list, nsub + 1)
    /\ nsub' = nsub + 1
    /\ postQuit' = IF ago_quit THEN postQuit \cup {nsub + 1} ELSE postQuit
    /\ cpc' = [cpc EXCEPT ![c] = "go_notify"]
    /\ UNCHANGED << max_conc, thread_list, ago_quit, func_mutex, run_condition,
                    idle_condition, wpc, func, arg, func_list_empty, joined,
                    aborted, order, ends, atQuit, failed >>
    /\ UNCHANGED two_mutex

\* go(): run_condition.notify_one(), after the lock is released; go returns.
GoNotify(c) ==
    /\ ~aborted
    /\ cpc[c] = "go_notify"
    /\ \E woken \in NotifyOne(run_condition) :
         /\ run_condition' = run_condition \ woken
         /\ wpc' = [w \in Workers |-> IF w \in woken THEN "top" ELSE wpc[w]]
    /\ cpc' = [cpc EXCEPT ![c] = "idle"]
    /\ UNCHANGED << max_conc, thread_list, ago_quit, func_list, arg_list,
                    func_mutex, idle_condition, func, arg, func_list_empty,
                    joined, aborted, nsub, order, ends, atQuit, postQuit,
                    failed >>
    /\ UNCHANGED two_mutex

\* The outcome go() hands its caller: the function returns void.
GoOutcome(k) == "void"

\* wait(), on entry and after each wake: under func_mutex, returns if the
\* predicate holds and blocks on idle_condition otherwise.
WaitCheck(c) ==
    /\ ~aborted
    /\ \/ cpc[c] = "idle" /\ Alive
       \/ cpc[c] = "wait_woken"
    /\ func_mutex = 0
    /\ IF IdlePredicate
         THEN /\ cpc' = [cpc EXCEPT ![c] = "wait_done"]
              /\ UNCHANGED idle_condition
         ELSE /\ cpc' = [cpc EXCEPT ![c] = "wait_blocked"]
              /\ idle_condition' = idle_condition \cup {c}
    /\ UNCHANGED << max_conc, thread_list, ago_quit, func_list, arg_list,
                    func_mutex, run_condition, wpc, func, arg, func_list_empty,
                    joined, aborted, nsub, order, ends, atQuit, postQuit,
                    failed >>
    /\ UNCHANGED two_mutex

\* A client blocked in wait() wakes without a notification.
WaitSpurious(c) ==
    /\ ~aborted
    /\ c \in idle_condition
    /\ idle_condition' = idle_condition \ {c}
    /\ cpc' = [cpc EXCEPT ![c] = "wait_woken"]
    /\ UNCHANGED << max_conc, thread_list, ago_quit, func_list, arg_list,
                    func_mutex, run_condition, wpc, func, arg, func_list_empty,
                    joined, aborted, nsub, order, ends, atQuit, postQuit,
                    failed >>
    /\ UNCHANGED two_mutex

\* wait() has returned; its caller carries on.
WaitExit(c) ==
    /\ ~aborted
    /\ cpc[c] = "wait_done"
    /\ cpc' = [cpc EXCEPT ![c] = "idle"]
    /\ UNCHANGED << max_conc, thread_list, ago_quit, func_list, arg_list,
                    func_mutex, run_condition, idle_condition, wpc, func, arg,
                    func_list_empty, joined, aborted, nsub, order, ends,
                    atQuit, postQuit, failed >>
    /\ UNCHANGED two_mutex

----------------------------------------------------------------------------
(* ago::~ago, called by main. *)

\* impl->ago_quit = true, with no lock held.
DtorRaise ==
    /\ ~aborted
    /\ cpc["main"] = "idle"
    /\ ago_quit' = TRUE
    /\ atQuit' = Range(func_list)
    /\ cpc' = [cpc EXCEPT !["main"] = "d_notify"]
    /\ UNCHANGED << max_conc, thread_list, func_list, arg_list, func_mutex,
                    run_condition, idle_condition, wpc, func, arg,
                    func_list_empty, joined, aborted, nsub, order, ends,
                    postQuit, failed >>
    /\ UNCHANGED two_mutex

\* impl->run_condition.notify_all()
DtorNotify ==
    /\ ~aborted
    /\ cpc["main"] = "d_notify"
    /\ run_condition' = {}
    /\ wpc' = [w \in Workers |-> IF w \in run_condition THEN "top" ELSE wpc[w]]
    /\ cpc' = [cpc EXCEPT !["main"] = "d_join"]
    /\ UNCHANGED << max_conc, thread_list, ago_quit, func_list, arg_list,
                    func_mutex, idle_condition, func, arg, func_list_empty,
                    joined, aborted, nsub, order, ends, atQuit, postQuit,
                    failed >>
    /\ UNCHANGED two_mutex

\* A join that does not wait for the thread.
JoinReturnsAtOnce(w) == TRUE

\* std::thread::join returns once the thread function has returned.
JoinReturns(w) == wpc[w] = "terminated"

\* (*t)->join(), for the threads of thread_list in order.
DtorJoin ==
    /\ ~aborted
    /\ cpc["main"] = "d_join"
    /\ joined < Cardinality(thread_list)
    /\ JoinReturns(joined + 1)
    /\ joined' = joined + 1
    /\ UNCHANGED << max_conc, thread_list, ago_quit, func_list, arg_list,
                    func_mutex, run_condition, idle_condition, wpc, func, arg,
                    func_list_empty, cpc, aborted, nsub, order, ends, atQuit,
                    postQuit, failed >>
    /\ UNCHANGED two_mutex

\* Every thread is joined: the threads are deleted and ~ago returns.
DtorDelete ==
    /\ ~aborted
    /\ cpc["main"] = "d_join"
    /\ joined = Cardinality(thread_list)
    /\ thread_list' = {}
    /\ cpc' = [cpc EXCEPT !["main"] = "d_done"]
    /\ UNCHANGED << max_conc, ago_quit, func_list, arg_list, func_mutex,
                    run_condition, idle_condition, wpc, func, arg,
                    func_list_empty, joined, aborted, nsub, order, ends,
                    atQuit, postQuit, failed >>
    /\ UNCHANGED two_mutex

----------------------------------------------------------------------------

WorkerIds == 1..(MaxConc + 1)

Next ==
    \/ \E w \in WorkerIds : IdleLock(w)
    \/ \E w \in WorkerIds : IdleBlock(w)
    \/ \E w \in WorkerIds : IdleSpurious(w)
    \/ \E w \in WorkerIds : IdlePop(w)
    \/ \E w \in WorkerIds : IdleReturn(w)
    \/ \E w \in WorkerIds : IdleThrow(w)
    \/ \E c \in Clients : GoPush(c)
    \/ \E c \in Clients : GoNotify(c)
    \/ \E c \in Clients : WaitCheck(c)
    \/ \E c \in Clients : WaitSpurious(c)
    \/ \E c \in Clients : WaitExit(c)
    \/ DtorRaise
    \/ DtorNotify
    \/ DtorJoin
    \/ DtorDelete

Spec == Init /\ [][Next]_vars

\* wait() re-checking its predicate after a wake (WaitCheck, less the entry).
WaitRecheck(c) == cpc[c] = "wait_woken" /\ WaitCheck(c)

\* What the scheduler and the task bodies are taken to guarantee: a thread
\* that can take a step takes it, a thread contending for func_mutex gets
\* it, and a task body that does not throw returns.  Nothing obliges a
\* client to call go, wait or the destructor, a condition variable to wake
\* spuriously, or a task body to throw.
Fairness ==
    /\ \A w \in WorkerIds :
         /\ SF_vars(IdleLock(w))
         /\ WF_vars(IdleBlock(w))
         /\ WF_vars(IdlePop(w))
         /\ WF_vars(IdleReturn(w))
    /\ \A c \in Clients :
         /\ WF_vars(GoNotify(c))
         /\ SF_vars(WaitRecheck(c))
         /\ WF_vars(WaitExit(c))
    /\ WF_vars(DtorNotify)
    /\ WF_vars(DtorJoin)
    /\ WF_vars(DtorDelete)

FairSpec == Init /\ [][Next]_vars /\ Fairness

----------------------------------------------------------------------------
(* The claims. *)

\* The tasks whose body has started and has not returned.
InFlight == Range(order) \ ends

\* The workers inside a task body.
Running == { w \in Workers : wpc[w] = "run" }

\* The pool is at rest: every worker is blocked on run_condition and no
\* client is inside go().
Quiescent ==
    /\ \A w \in Workers : wpc[w] = "waiting"
    /\ \A c \in Clients : cpc[c] # "go_notify"

\* C1: at the step in which a wait() call returns, the function queue is
\* empty and no worker is inside a task body.
C1_DrainedWhenWaitReturns ==
    [][\A c \in Clients :
         (cpc[c] # "wait_done" /\ cpc'[c] = "wait_done")
            => (func_list' = << >> /\ \A w \in Workers : wpc'[w] # "run")]_vars

\* C2: no task's body is started twice (by one worker or by two), only
\* submitted tasks are started, and once a pool that is not torn down is at
\* rest every submitted task has been started and has returned.
C2_ExactlyOnce ==
    /\ \A i, j \in DOMAIN order : order[i] = order[j] => i = j
    /\ Range(order) \subseteq 1..nsub
    /\ ends \subseteq Range(order)
    /\ (~ago_quit /\ Quiescent) => (Range(order) = 1..nsub /\ ends = 1..nsub)

\* C2's case: two workers, both clients have submitted, all of it has run and
\* the pool is at rest again.
C2_Witness ==
    /\ ~ago_quit
    /\ Quiescent
    /\ max_conc = 2
    /\ nsub = 3
    /\ ends = 1..3

\* C3: with task bodies that return and fair scheduling, and the pool not
\* torn down, every submitted task's body eventually returns and every
\* client blocked in wait() is eventually released.
C3_NoLostWakeup ==
    /\ \A k \in 1..MaxTasks :
         (nsub >= k) ~> (k \in ends \/ ago_quit \/ aborted)
    /\ \A c \in Clients :
         (cpc[c] = "wait_blocked") ~> (cpc[c] = "wait_done" \/ ago_quit \/ aborted)

\* C3's case: more tasks than workers were submitted, all have run, and a
\* wait() has returned with the workers idle again.
C3_Witness ==
    /\ ~ago_quit
    /\ nsub > max_conc
    /\ nsub = 3
    /\ ends = 1..nsub
    /\ cpc["main"] = "wait_done"
    /\ run_condition = Workers

\* C4: with task bodies that return and fair scheduling, once the destructor
\* has raised ago_quit it eventually joins every worker and returns.
C4_TeardownCompletes ==
    ago_quit ~> (cpc["main"] = "d_done" \/ aborted)

\* C5: no task that was in the queue when ago_quit was raised is ever
\* popped and run.
C5_QueuedAtQuitDropped == atQuit \cap Range(order) = {}

\* C6: when the destructor has returned, every worker has left idle() and
\* every task that was popped has run to completion.
C6_TeardownWaitsForInFlight ==
    cpc["main"] = "d_done" =>
        /\ \A w \in Workers : wpc[w] = "terminated"
        /\ InFlight = {}

\* C6's case: the destructor has returned, some task had been popped and has
\* run, and another was left in the queue.
C6_Witness ==
    /\ cpc["main"] = "d_done"
    /\ max_conc = 2
    /\ Len(order) >= 2
    /\ func_list # << >>

\* C7: with max_conc = 1 the bodies start in submission order and each has
\* returned before the next one starts.
C7_FifoSingleWorker ==
    max_conc = 1 =>
        /\ order = [i \in 1..Len(order) |-> i]
        /\ \A i \in 1..(Len(order) - 1) : order[i] \in ends

\* C7's case: one worker has run three tasks.
C7_Witness ==
    /\ max_conc = 1
    /\ Len(order) = 3
    /\ ends = 1..3

\* C8: at most max_conc task bodies are executing at once, and the workers
\* inside a body are each running a different task that is in flight.
C8_ConcurrencyBound ==
    /\ Cardinality(InFlight) <= max_conc
    /\ \A w \in Running : func[w] \in InFlight
    /\ \A w1, w2 \in Running : func[w1] = func[w2] => w1 = w2

\* C8's case: every worker is inside a body while another task is queued.
C8_Witness ==
    /\ max_conc = 2
    /\ Cardinality(InFlight) = 2
    /\ func_list # << >>

\* C9: a go() call made after ago_quit was raised hands its caller an error
\* and its task is neither left in the queue nor run.
C9_SubmitAfterQuitReported ==
    \A k \in postQuit :
        /\ GoOutcome(k) = "error"
        /\ k \notin Range(func_list)
        /\ k \notin Range(order)

\* C10: when a task body has thrown, the pool is not aborted and every
\* worker is still alive (none has left idle()).
C10_TaskFailureContained ==
    failed # {} =>
        /\ ~aborted
        /\ \A w \in Workers : wpc[w] # "terminated"

\* The pool is drained: nothing is queued and no worker is between taking a
\* task and the signal that follows its body.
Drained ==
    /\ func_list = << >>
    /\ \A w \in Workers : wpc[w] \notin {"assigned", "run"}

\* C11: a wait() issued while the function queue is empty returns in that
\* step, starting and ending no task, and whenever the pool is drained no
\* client is left blocked in wait(), however many were blocked together.
C11_WaitIdempotentMultiCaller ==
    /\ [](Drained => idle_condition = {})
    /\ [][\A c \in Clients :
            (cpc[c] = "idle" /\ func_list = << >> /\ cpc'[c] \in {"wait_done", "wait_blocked"})
               => (cpc'[c] = "wait_done" /\ order' = order /\ ends' = ends
                   /\ func_list' = func_list)]_vars

\* C11's case: both clients were blocked in wait() and both have been
\* released with the pool drained.
C11_Witness ==
    /\ Drained
    /\ ends # {}
    /\ \A c \in Clients : cpc[c] = "wait_woken"

\* C12: no worker holds func_mutex while it is inside a task body; so
\* when every worker is inside a body a client can push, whatever is queued
\* already, and a client that has pushed can notify and return.
C12_GoNeverBlocksOnWorkers ==
    /\ \A w \in Running : func_mutex # w
    /\ \A c \in Clients :
         (Running = Workers /\ cpc[c] = "idle" /\ Alive /\ ~aborted
             /\ nsub < MaxTasks) => ENABLED GoPush(c)
    /\ \A c \in Clients :
         (cpc[c] = "go_notify" /\ ~aborted) => ENABLED GoNotify(c)

\* C12's case: both workers are inside a body, a task is queued behind them
\* and a client has just pushed and is about to notify.
C12_Witness ==
    /\ max_conc = 2
    /\ Running = Workers
    /\ func_list # << >>
    /\ cpc["aux"] = "go_notify"

\* C14: every access to the queues and to the quit flag is made by a thread
\* holding func_mutex: no step changes ago_quit, func_list or arg_list
\* while another thread holds the lock (a worker's pop is made by the
\* holder itself).
C14_SingleLockDiscipline ==
    [][/\ (ago_quit' # ago_quit) => func_mutex = 0
       /\ (func_list' # func_list \/ arg_list' # arg_list) =>
            \/ func_mutex = 0
            \/ \E w \in Workers :
                 func_mutex = w /\ wpc[w] = "assigned" /\ wpc'[w] = "run"]_vars

\* C15: a worker that is about to execute front() and pop() (it holds
\* func_mutex, past the quit test) finds both queues non-empty.
C15_GuardedPop ==
    \A w \in Workers :
        wpc[w] = "assigned" =>
            /\ func_mutex = w
            /\ func_list # << >>
            /\ arg_list # << >>

\* C15's case: a worker is about to pop the only task while the other
\* worker, awake as well, waits for the lock, and teardown has begun.
C15_Witness ==
    \E w, v \in Workers :
        /\ w # v
        /\ wpc[w] = "assigned"
        /\ wpc[v] = "top"
        /\ Len(func_list) = 1
        /\ ago_quit

\* Worker w's task body returns in this step.
BodyReturns(w) == wpc[w] = "run" /\ wpc'[w] = "top"

\* Worker w pops in this step.
Pops(w) == wpc[w] = "assigned" /\ wpc'[w] = "run"

\* The step wakes every client blocked on idle_condition.
WakesAllWaiters ==
    /\ idle_condition' = {}
    /\ \A c \in idle_condition : cpc'[c] = "wait_woken"

C17_QuitBeforePop ==
    [][\A w \in Workers :
         /\ (wpc[w] = "top" /\ wpc'[w] # "top" /\ ago_quit) =>
              /\ wpc'[w] = "terminated"
              /\ func_list' = func_list
              /\ arg_list' = arg_list
              /\ order' = order
         /\ wpc[w] = "terminated" => wpc'[w] = "terminated"]_vars

\* C17's case: a worker has terminated and left a task in the queue.
C17_Witness ==
    \E w \in Workers :
        /\ wpc[w] = "terminated"
        /\ func_list # << >>
        /\ atQuit # {}

\* C18: for any number of workers the tasks are popped in the order in
\* which go() pushed them: the i-th task to start is the i-th pushed.
C18_FifoDispatch == \A i \in DOMAIN order : order[i] = i

\* C18's case: two workers have popped three tasks in push order, and the
\* second task finished while the first was still running.
C18_Witness ==
    /\ max_conc = 2
    /\ Len(order) = 3
    /\ 2 \in ends
    /\ 1 \notin ends

\* A wait() call of client c returns in this step.
WaitReturns(c) == cpc[c] # "wait_done" /\ cpc'[c] = "wait_done"

\* C19: wait() returns only in a step in which it holds func_mutex (no
\* worker has it) and finds func_list empty; every task pushed so far, and
\* so every task pushed before the call began, has then been popped by a
\* worker.
C19_WaitReturnsOnEmptyQueue ==
    [][\A c \in Clients :
         WaitReturns(c) =>
            /\ func_mutex = 0
            /\ func_list = << >>
            /\ func_list' = << >>
            /\ \A k \in 1..nsub : k \in Range(order')]_vars

\* C19's case: a wait() has returned after two or more pushes, with a task
\* started and not finished.
C19_Witness ==
    /\ \E c \in Clients : cpc[c] = "wait_done"
    /\ nsub >= 2
    /\ func_list = << >>
    /\ InFlight # {}
    /\ ~aborted

\* C20: func_list and arg_list are pushed and popped together under
\* func_mutex, so whenever the lock is free they have the same length and
\* the same call numbers position by position, and a worker always invokes
\* a function on the argument that was pushed with it in the same go() call.
C20_FuncArgPairing ==
    /\ func_mutex = 0 => /\ Len(func_list) = Len(arg_list)
                         /\ \A i \in DOMAIN func_list : func_list[i] = arg_list[i]
    /\ \A w \in Workers : wpc[w] = "assigned" => Len(func_list) = Len(arg_list)
    /\ \A w \in Running : func[w] # 0 /\ arg[w] = func[w]

\* C20's case: two workers run the functions of different go() calls at
\* once on their arguments while a later pair is still queued.
C20_Witness ==
    /\ \E w, v \in Running : func[w] # func[v]
    /\ Len(func_list) >= 1
    /\ Len(arg_list) >= 1
    /\ nsub = MaxTasks

----------------------------------------------------------------------------
(***************************************************************************)
(* The two-mutex variant of the pool (src/ago.h), driven as the ago_test   *)
(* program drives it: main constructs the pool with four workers, calls    *)
(* go() in a loop, calls wait(), and returns from main, which destroys the *)
(* pool.  The fields it shares with the single-mutex pool keep their       *)
(* variables; run_mutex and idle_mutex are its own.                        *)
(*                                                                         *)
(* Both waits are written cv.wait(std::unique_lock<std::mutex>(m)) after   *)
(* m.lock(): the temporary locks a mutex its thread already owns, which is *)
(* undefined behaviour.  relock is what the build makes of it: the thread  *)
(* blocks for ever holding m ("deadlock"), or the second lock is let       *)
(* through and the wait releases m, blocks, and gives m back when it       *)
(* returns ("tolerant").  Neither wait has a predicate.                    *)
(***************************************************************************)

\* ago r(4) in ago_test.cpp.
TestConc == 4

\* The outcomes of locking a std::mutex the calling thread already owns.
Relock == {"deadlock", "tolerant"}

\* The state when ago r(4) has been constructed.
OldInit ==
    /\ max_conc = TestConc
    /\ thread_list = Spawn(max_conc)
    /\ ago_quit = FALSE
    /\ func_list = << >>
    /\ arg_list = << >>
    /\ func_mutex = 0
    /\ run_condition = {}
    /\ idle_condition = {}
    /\ wpc = [w \in thread_list |-> "top"]
    /\ func = [w \in thread_list |-> 0]
    /\ arg = [w \in thread_list |-> 0]
    /\ func_list_empty = [w \in thread_list |-> FALSE]
    /\ cpc = [c \in Clients |-> "idle"]
    /\ joined = 0
    /\ aborted = FALSE
    /\ nsub = 0
    /\ order = << >>
    /\ ends = {}
    /\ atQuit = {}
    /\ postQuit = {}
    /\ failed = {}
    /\ run_mutex = 0
    /\ idle_mutex = "free"
    /\ relock \in Relock

\* idle(): run_mutex.lock(), then run_condition.wait on a temporary
\* unique_lock of run_mutex. No other thread can act on run_mutex or
\* run_condition between the two, so they are one step.
OldIdleWait(w) ==
    /\ ~aborted
    /\ w \in Workers
    /\ wpc[w] = "top"
    /\ run_mutex = 0
    /\ IF relock = "deadlock"
         THEN /\ run_mutex' = w
              /\ wpc' = [wpc EXCEPT ![w] = "stuck"]
              /\ UNCHANGED run_condition
         ELSE /\ run_mutex' = 0
              /\ wpc' = [wpc EXCEPT ![w] = "waiting"]
              /\ run_condition' = run_condition \cup {w}
    /\ UNCHANGED << max_conc, thread_list, ago_quit, func_list, arg_list,
                    func_mutex, idle_condition, func, arg, func_list_empty,
                    cpc, joined, aborted, nsub, order, ends, atQuit, postQuit,
                    failed, idle_mutex, relock >>

\* A worker blocked in run_condition.wait wakes without a notification.
OldIdleSpurious(w) ==
    /\ ~aborted
    /\ w \in run_condition
    /\ run_condition' = run_condition \ {w}
    /\ wpc' = [wpc EXCEPT ![w] = "woken"]
    /\ UNCHANGED << max_conc, thread_list, ago_quit, func_list, arg_list,
                    func_mutex, idle_condition, func, arg, func_list_empty,
                    cpc, joined, aborted, nsub, order, ends, atQuit, postQuit,
                    failed, two_mutex >>

\* idle(): the wait takes run_mutex back and returns, run_mutex is unlocked,
\* and the quit flag is read: the worker returns or goes on to the pop.
OldIdleWake(w) ==
    /\ ~aborted
    /\ w \in Workers
    /\ wpc[w] = "woken"
    /\ run_mutex = 0
    /\ wpc' = [wpc EXCEPT ![w] = IF QuitTest THEN "terminated" ELSE "assigned"]
    /\ UNCHANGED << max_conc, thread_list, ago_quit, func_list, arg_list,
                    func_mutex, run_condition, idle_condition, func, arg,
                    func_list_empty, cpc, joined, aborted, nsub, order, ends,
                    atQuit, postQuit, failed, two_mutex >>

\* idle(): under func_mutex, front() and pop() of both queues with no test
\* that they hold anything, then funcListEmpty. On an empty queue front() is
\* undefined behaviour: the process dies, or the worker goes on with a
\* function that is no submitted task and with either value of the flag.
OldIdlePop(w) ==
    /\ ~aborted
    /\ w \in Workers
    /\ wpc[w] = "assigned"
    /\ func_mutex = 0
    /\ IF func_list # << >>
         THEN /\ func' = [func EXCEPT ![w] = QueueFront(func_list)]
              /\ func_list' = QueuePop(func_list)
              /\ arg' = [arg EXCEPT ![w] = ArgFront(arg_list)]
              /\ arg_list' = QueuePop(arg_list)
              /\ func_list_empty' =
                    [func_list_empty EXCEPT ![w] = (func_list' = << >>)]
              /\ wpc' = [wpc EXCEPT ![w] = "run"]
              /\ order' = Append(order, func'[w])
              /\ UNCHANGED aborted
         ELSE \/ /\ aborted' = TRUE
                 /\ UNCHANGED << func, arg, func_list, arg_list,
                                 func_list_empty, wpc, order >>
              \/ /\ func' = [func EXCEPT ![w] = 0]
                 /\ arg' = [arg EXCEPT ![w] = 0]
                 /\ \E b \in BOOLEAN :
                       func_list_empty' = [func_list_empty EXCEPT ![w] = b]
                 /\ wpc' = [wpc EXCEPT ![w] = "run"]
                 /\ UNCHANGED << aborted, func_list, arg_list, order >>
    /\ UNCHANGED << max_conc, thread_list, ago_quit, func_mutex,
                    run_condition, idle_condition, cpc, joined, nsub, ends,
                    atQuit, postQuit, failed, two_mutex >>

\* idle(): func(arg) returns.
OldIdleReturn(w) ==
    /\ ~aborted
    /\ w \in Workers
    /\ wpc[w] = "run"
    /\ ends' = ends \cup ({func[w]} \ {0})
    /\ wpc' = [wpc EXCEPT ![w] = "signal"]
    /\ UNCHANGED << max_conc, thread_list, ago_quit, func_list, arg_list,
                    func_mutex, run_condition, idle_condition, func, arg,
                    func_list_empty, cpc, joined, aborted, nsub, order,
                    atQuit, postQuit, failed, two_mutex >>

\* idle(): under idle_mutex, idle_condition.notify_all() if funcListEmpty;
\* the worker loops. Its locals are dead until the next pop assigns them.
OldIdleSignal(w) ==
    /\ ~aborted
    /\ w \in Workers
    /\ wpc[w] = "signal"
    /\ idle_mutex = "free"
    /\ idle_condition' = idle_condition \ IdleSignal(w)
    /\ cpc' = [c \in Clients |->
                 IF c \in IdleSignal(w) THEN "wait_woken" ELSE cpc[c]]
    /\ wpc' = [wpc EXCEPT ![w] = "top"]
    /\ func' = [func EXCEPT ![w] = 0]
    /\ arg' = [arg EXCEPT ![w] = 0]
    /\ func_list_empty' = [func_list_empty EXCEPT ![w] = FALSE]
    /\ UNCHANGED << max_conc, thread_list, ago_quit, func_list, arg_list,
                    func_mutex, run_condition, joined, aborted, nsub, order,
                    ends, atQuit, postQuit, failed, two_mutex >>

\* go(), as main calls it in its loop: pushes under func_mutex.
OldGoPush ==
    /\ ~aborted
    /\ cpc["main"] = "idle"
    /\ nsub < MaxTasks
    /\ func_mutex = 0
    /\ func_list' = QueuePush(func_list, nsub + 1)
    /\ arg_list' = QueuePush(arg_list, nsub + 1)
    /\ nsub' = nsub + 1
    /\ cpc' = [cpc EXCEPT !["main"] = "go_notify"]
    /\ UNCHANGED << max_conc, thread_list, ago_quit, func_mutex, run_condition,
                    idle_condition, wpc, func, arg, func_list_empty, joined,
                    aborted, order, ends, atQuit, postQuit, failed,
                    two_mutex >>

\* go(): run_condition.notify_one() under run_mutex; go returns.
OldGoNotify ==
    /\ ~aborted
    /\ cpc["main"] = "go_notify"
    /\ run_mutex = 0
    /\ \E woken \in NotifyOne(run_condition) :
         /\ run_condition' = run_condition \ woken
         /\ wpc' = [w \in Workers |-> IF w \in woken THEN "woken" ELSE wpc[w]]
    /\ cpc' = [cpc EXCEPT !["main"] = "idle"]
    /\ UNCHANGED << max_conc, thread_list, ago_quit, func_list, arg_list,
                    func_mutex, idle_condition, func, arg, func_list_empty,
                    joined, aborted, nsub, order, ends, atQuit, postQuit,
                    failed, two_mutex >>

\* wait(), called by main when its loop is over: idle_mutex.lock(), then
\* idle_condition.wait on a temporary unique_lock of idle_mutex.
OldWait ==
    /\ ~aborted
    /\ cpc["main"] = "idle"
    /\ nsub = MaxTasks
    /\ idle_mutex = "free"
    /\ IF relock = "deadlock"
         THEN /\ idle_mutex' = "main"
              /\ cpc' = [cpc EXCEPT !["main"] = "stuck"]
              /\ UNCHANGED idle_condition
         ELSE /\ idle_mutex' = "free"
              /\ cpc' = [cpc EXCEPT !["main"] = "wait_blocked"]
              /\ idle_condition' = idle_condition \cup {"main"}
    /\ UNCHANGED << max_conc, thread_list, ago_quit, func_list, arg_list,
                    func_mutex, run_condition, wpc, func, arg, func_list_empty,
                    joined, aborted, nsub, order, ends, atQuit, postQuit,
                    failed, run_mutex, relock >>

\* main, blocked in idle_condition.wait, wakes without a notification.
OldWaitSpurious ==
    /\ ~aborted
    /\ "main" \in idle_condition
    /\ idle_condition' = idle_condition \ {"main"}
    /\ cpc' = [cpc EXCEPT !["main"] = "wait_woken"]
    /\ UNCHANGED << max_conc, thread_list, ago_quit, func_list, arg_list,
                    func_mutex, run_condition, wpc, func, arg, func_list_empty,
                    joined, aborted, nsub, order, ends, atQuit, postQuit,
                    failed, two_mutex >>

\* wait(): the wait takes idle_mutex back and returns, idle_mutex is
\* unlocked, and wait() returns whatever the state of the queue.
OldWaitReturn ==
    /\ ~aborted
    /\ cpc["main"] = "wait_woken"
    /\ idle_mutex = "free"
    /\ cpc' = [cpc EXCEPT !["main"] = "wait_done"]
    /\ UNCHANGED << max_conc, thread_list, ago_quit, func_list, arg_list,
                    func_mutex, run_condition, idle_condition, wpc, func, arg,
                    func_list_empty, joined, aborted, nsub, order, ends,
                    atQuit, postQuit, failed, two_mutex >>

\* main returns and ~ago starts: impl->ago_quit = true, with no lock held.
OldDtorRaise ==
    /\ ~aborted
    /\ cpc["main"] = "wait_done"
    /\ ago_quit' = TRUE
    /\ atQuit' = Range(func_list)
    /\ cpc' = [cpc EXCEPT !["main"] = "d_notify"]
    /\ UNCHANGED << max_conc, thread_list, func_list, arg_list, func_mutex,
                    run_condition, idle_condition, wpc, func, arg,
                    func_list_empty, joined, aborted, nsub, order, ends,
                    postQuit, failed, two_mutex >>

\* ~ago: run_condition.notify_all() under run_mutex.
OldDtorNotify ==
    /\ ~aborted
    /\ cpc["main"] = "d_notify"
    /\ run_mutex = 0
    /\ run_condition' = {}
    /\ wpc' = [w \in Workers |->
                 IF w \in run_condition THEN "woken" ELSE wpc[w]]
    /\ cpc' = [cpc EXCEPT !["main"] = "d_join"]
    /\ UNCHANGED << max_conc, thread_list, ago_quit, func_list, arg_list,
                    func_mutex, idle_condition, func, arg, func_list_empty,
                    joined, aborted, nsub, order, ends, atQuit, postQuit,
                    failed, two_mutex >>

\* ~ago: the join loop, the same text as in the single-mutex pool.
OldDtorJoin == DtorJoin

\* ~ago: the delete loop, the same text as in the single-mutex pool.
OldDtorDelete == DtorDelete

OldWorkerIds == 1..TestConc

OldNext ==
    \/ \E w \in OldWorkerIds : OldIdleWait(w)
    \/ \E w \in OldWorkerIds : OldIdleSpurious(w)
    \/ \E w \in OldWorkerIds : OldIdleWake(w)
    \/ \E w \in OldWorkerIds : OldIdlePop(w)
    \/ \E w \in OldWorkerIds : OldIdleReturn(w)
    \/ \E w \in OldWorkerIds : OldIdleSignal(w)
    \/ OldGoPush
    \/ OldGoNotify
    \/ OldWait
    \/ OldWaitSpurious
    \/ OldWaitReturn
    \/ OldDtorRaise
    \/ OldDtorNotify
    \/ OldDtorJoin
    \/ OldDtorDelete

OldSpec == OldInit /\ [][OldNext]_vars

\* A step some thread takes of itself: any step but a spurious wake, which
\* nothing promises.
OldSteps ==
    \/ \E w \in OldWorkerIds :
          \/ OldIdleWait(w)
          \/ OldIdleWake(w)
          \/ OldIdlePop(w)
          \/ OldIdleReturn(w)
          \/ OldIdleSignal(w)
    \/ OldGoPush
    \/ OldGoNotify
    \/ OldWait
    \/ OldWaitReturn
    \/ OldDtorRaise
    \/ OldDtorNotify
    \/ OldDtorJoin
    \/ OldDtorDelete

\* No thread can take a step of itself: every thread has returned, is
\* blocked on a mutex or in a join, or sits in a wait that only a spurious
\* wake would end.
OldAtRest == ~aborted /\ ~ENABLED OldSteps

\* main is inside a call of wait().
InOldWait == cpc["main"] \in {"stuck", "wait_blocked", "wait_woken"}

\* C13: in the two-mutex variant with four workers, driven as ago_test
\* drives it, every function go() has pushed is eventually run and wait()
\* eventually returns: even where the build lets the second lock of an owned
\* mutex through, the program never comes to rest with main short of its
\* MaxTasks calls of go(), with a pushed function not run to its end, or
\* with main still inside wait().
C13_TwoMutexRunsAllAndWaitReturns ==
    (relock = "tolerant" /\ OldAtRest) =>
        /\ nsub = MaxTasks
        /\ \A k \in 1..nsub : k \in ends
        /\ ~InOldWait
====
